---------------------------- MODULE Spec2Model ----------------------------
(***************************************************************************)
(* A model of src/src/CoapClient.ts: the CoAP client's connection          *)
(* registry, its sequence generators, the request dispatcher and the       *)
(* response router.                                                        *)
(*                                                                         *)
(* JavaScript values are modelled as follows.  A Buffer is a sequence of   *)
(* bytes (0..255).  A path is a sequence of one-character strings.  An     *)
(* origin string, a token string and a hostname are TLA+ strings.  Heap    *)
(* objects whose identity matters (ConnectionInfo, sockets) are numbered   *)
(* in creation order and addressed by number; a connection's lastToken     *)
(* Buffer is one heap object per connection, addressed by the connection's *)
(* number, because incrementToken writes into the Buffer it is given and   *)
(* returns that same Buffer.                                               *)
(***************************************************************************)
EXTENDS Integers, Sequences, FiniteSets, TLC

VARIABLES
    connections,      \* CoapClient.connections: origin string -> connection number
    dtlsParams,       \* CoapClient.dtlsParams: the hostnames that have an entry
    pendingRequests,  \* CoapClient.pendingRequests: token string -> PendingRequest
    conns,            \* the ConnectionInfo objects ever created, in creation order
    sockets,          \* the dgram/dtls sockets ever created, in creation order
    calls,            \* the calls of request so far, in call order: their arguments
    pc,               \* per call: where the call is suspended
    reqConn,          \* per call: `connection` of request (0: none yet)
    reqSock,          \* per call: the socket getSocket created for it (0: none)
    handle,           \* per call: the promise request returned to its caller
    sent,             \* the datagrams handed to a socket's send, in order
    microtasks,       \* the calls about to resume after an await, in queueing order
    uncaught,         \* an exception left an event listener: the process is gone
    inbound,          \* coapMsg of the latest run of onMessage
    inboundOrigin,    \* origin of the latest run of onMessage
    fnArg,            \* argument of a sequence generator or of the path split
    fnRes,            \* its result
    fnDone,           \* whether it has been applied
    fnCount           \* how many times a generator has been applied in a row

vars == << connections, dtlsParams, pendingRequests, conns, sockets, calls, pc,
           reqConn, reqSock, handle, sent, microtasks, uncaught, inbound,
           inboundOrigin, fnArg, fnRes, fnDone, fnCount >>

clientVars == << connections, dtlsParams, pendingRequests, conns, sockets, calls,
                 pc, reqConn, reqSock, handle, sent, microtasks, uncaught, inbound,
                 inboundOrigin >>

fnVars == << fnArg, fnRes, fnDone, fnCount >>

\* JavaScript's undefined, where a string is expected (an option's value).
Undefined == "undefined"
\* A Buffer that is absent (undefined or null): no sequence of bytes.
NoBuffer == << -1 >>
\* url.pathname when the URL has no path (null): no sequence of characters.
NoPath == << "null" >>

(***************************************************************************)
(* Bounds of the model.                                                    *)
(***************************************************************************)
\* calls of request in one run of Spec, SpecSecure and SpecRouter
MaxRequests == 2
\* calls of request in one run of SpecReuse
MaxReuse == 3
\* calls of request in one run of SpecOptions
MaxOptionCalls == 1
\* longest token the token generator is applied to on its own
MaxTokLen == 4
\* longest pathname the path split is applied to on its own
MaxPathLen == 5
\* longest token whose whole cycle the token generator is run through
MaxCycleBytes == 2

\* 0xff, the largest byte (incrementToken) and 0xffff (incrementMessageID)
ByteMax == 255
MsgIdMax == 65535
\* crypto.randomBytes(4)
TokenLength == 4

(***************************************************************************)
(* Sequence generators.                                                    *)
(***************************************************************************)
RECURSIVE incrementTokenFrom(_, _)
\* The loop of incrementToken from index i down (1-based here, 0-based there).
incrementTokenFrom(token, i) ==
    IF i < 1 THEN token
    ELSE IF token[i] < ByteMax
         THEN [token EXCEPT ![i] = token[i] + 1]
         ELSE incrementTokenFrom([token EXCEPT ![i] = 0], i - 1)

\* incrementToken with the carry dropped: a saturated byte stops the scan.
incrementTokenNoCarry(token) ==
    LET len == Len(token) IN
    IF len = 0 THEN token
    ELSE IF token[len] < ByteMax
         THEN [token EXCEPT ![len] = token[len] + 1]
         ELSE [token EXCEPT ![len] = 0]

\* incrementToken that stops at the all-0xFF token instead of wrapping.
incrementTokenSaturating(token) ==
    IF \A i \in 1..Len(token) : token[i] = ByteMax
    THEN token
    ELSE incrementTokenFrom(token, Len(token))

\* The bytes incrementToken leaves in the Buffer it was given (and returns).
incrementToken(token) ==
    incrementTokenFrom(token, Len(token))

\* (++msgId > 0xffff) ? msgId : 0: a generator that restarts at 0.
incrementMessageIDFromZero(msgId) ==
    LET inc == msgId + 1 IN
    IF inc > MsgIdMax THEN inc ELSE 0

\* (++msgId > 0xffff) ? msgId : 1
incrementMessageID(msgId) ==
    LET inc == msgId + 1 IN
    IF inc > MsgIdMax THEN inc ELSE 1

(***************************************************************************)
(* The path of a request, as request turns it into Uri-Path options.       *)
(***************************************************************************)
RECURSIVE stripLeading(_)
\* while (pathname.startsWith("/")) pathname = pathname.slice(1)
stripLeading(p) ==
    IF Len(p) > 0 /\ Head(p) = "/" THEN stripLeading(Tail(p)) ELSE p

RECURSIVE stripTrailing(_)
\* while (pathname.endsWith("/")) pathname = pathname.slice(0, -1)
stripTrailing(p) ==
    IF Len(p) > 0 /\ p[Len(p)] = "/"
    THEN stripTrailing(SubSeq(p, 1, Len(p) - 1))
    ELSE p

RECURSIVE splitFrom(_, _, _)
\* String.prototype.split("/"): the pieces between the separators, empty
\* pieces included; the empty string splits into one empty piece.
splitFrom(p, cur, acc) ==
    IF p = << >> THEN Append(acc, cur)
    ELSE IF Head(p) = "/"
         THEN splitFrom(Tail(p), << >>, Append(acc, cur))
         ELSE splitFrom(Tail(p), Append(cur, Head(p)), acc)

split(p) == splitFrom(p, << >>, << >>)

\* url.pathname || ""
pathnameOf(pathname) ==
    IF pathname = NoPath \/ pathname = << >> THEN << >> ELSE pathname

\* pathParts of request: the values of the Uri-Path options, in order.
pathParts(pathname) ==
    split(stripTrailing(stripLeading(pathnameOf(pathname))))

(***************************************************************************)
(* Origin.                                                                 *)
(***************************************************************************)
RECURSIVE toNumber(_)
\* +url.port: the decimal value of the port's digits; +null and +"" are 0.
toNumber(digits) ==
    IF digits = << >> THEN 0
    ELSE 10 * toNumber(SubSeq(digits, 1, Len(digits) - 1)) + digits[Len(digits)]

\* Origin.fromUrl
fromUrl(url) ==
    [protocol |-> url.protocol, hostname |-> url.hostname, port |-> toNumber(url.port)]

\* Origin.toString: `${protocol}//${hostname}:${port}`
toString(origin) ==
    origin.protocol \o "//" \o origin.hostname \o ":" \o ToString(origin.port)

(***************************************************************************)
(* Buffer.toString("hex").                                                 *)
(***************************************************************************)
HexDigits ==
    << "0", "1", "2", "3", "4", "5", "6", "7",
       "8", "9", "a", "b", "c", "d", "e", "f" >>

RECURSIVE toHex(_)
toHex(bytes) ==
    IF bytes = << >> THEN ""
    ELSE HexDigits[(Head(bytes) \div 16) + 1] \o HexDigits[(Head(bytes) % 16) + 1]
         \o toHex(Tail(bytes))

(***************************************************************************)
(* The options of a request.  An option of the caller is "true", "false"   *)
(* or Undefined; `given` is whether the caller passed an options object.   *)
(***************************************************************************)
\* a || b on values that are "true", "false" or undefined
Or(a, b) == IF a = "true" THEN a ELSE b

\* The defaults as `option === undefined ? default : option` would set them.
normalizeRespectingCaller(options) ==
    LET o == IF options.given THEN options
             ELSE [given |-> TRUE, confirmable |-> Undefined,
                   keepAlive |-> Undefined, observe |-> Undefined]
        dflt(v, d) == IF v = Undefined THEN d ELSE v
    IN  [given |-> TRUE,
         confirmable |-> dflt(o.confirmable, "true"),
         observe |-> dflt(o.observe, "false"),
         keepAlive |-> dflt(o.keepAlive, "true")]

\* Lines 155-158 of request: options after the defaults are set.
normalizeOptions(options) ==
    LET o == IF options.given THEN options
             ELSE [given |-> TRUE, confirmable |-> Undefined,
                   keepAlive |-> Undefined, observe |-> Undefined]
        observe == Or(o.observe, "false")
    IN  [given |-> TRUE,
         confirmable |-> Or(o.confirmable, "true"),
         observe |-> observe,
         keepAlive |-> Or(Or(o.keepAlive, observe), "true")]

(***************************************************************************)
(* The inputs the model draws from.                                        *)
(***************************************************************************)
Hostnames == {"h1", "h2"}

NoOptions ==
    [given |-> FALSE, confirmable |-> Undefined, keepAlive |-> Undefined,
     observe |-> Undefined]

OptionValues == {Undefined, "true", "false"}

\* Every options object a caller can pass, and none.
AllOptions ==
    {NoOptions} \cup
    [given : {TRUE}, confirmable : OptionValues, keepAlive : OptionValues,
     observe : OptionValues]

\* coap://h1:5683/a/b/
UrlPlain ==
    [protocol |-> "coap:", hostname |-> "h1", port |-> <<5, 6, 8, 3>>,
     pathname |-> <<"/", "a", "/", "b", "/">>]
\* coap://h1:5684
UrlOtherPort ==
    [protocol |-> "coap:", hostname |-> "h1", port |-> <<5, 6, 8, 4>>,
     pathname |-> NoPath]
\* coaps://h1:5684/a
UrlSecure ==
    [protocol |-> "coaps:", hostname |-> "h1", port |-> <<5, 6, 8, 4>>,
     pathname |-> <<"/", "a">>]
\* coaps://h2:5684/a
UrlSecureOtherHost ==
    [protocol |-> "coaps:", hostname |-> "h2", port |-> <<5, 6, 8, 4>>,
     pathname |-> <<"/", "a">>]
\* http://h1/
UrlHttp ==
    [protocol |-> "http:", hostname |-> "h1", port |-> << >>, pathname |-> <<"/">>]

Urls == {UrlPlain, UrlOtherPort, UrlSecure, UrlSecureOtherHost, UrlHttp}

\* The arguments of a call of request with no payload and no options.
CallsTo(urls) ==
    [url : urls, method : {"get"}, payload : {NoBuffer}, options : {NoOptions}]

\* The arguments of the calls of request in SpecOptions: every options value.
OptionCalls ==
    [url : {UrlPlain}, method : {"get"}, payload : {NoBuffer, <<1>>},
     options : AllOptions]

\* The values crypto.randomBytes(4) is drawn from.
RandomTokens ==
    { [i \in 1..TokenLength |-> 0], [i \in 1..TokenLength |-> ByteMax] }

RECURSIVE incrementTimes(_, _)
incrementTimes(token, k) ==
    IF k = 0 THEN token ELSE incrementTimes(incrementToken(token), k - 1)

\* The tokens of inbound messages: absent, empty, one byte, and the first two
\* tokens a connection allocates.
AllocatedTokens ==
    { incrementTimes(t, k) : t \in RandomTokens, k \in 1..2 }

InboundTokens == {NoBuffer, << >>, <<1>>} \cup AllocatedTokens

isResponseCode(code) == code.kind = "response"

\* MessageCode of an inbound message: its class and its value.
InboundCodes ==
    { [kind |-> "empty", value |-> "0.00"], [kind |-> "request", value |-> "0.01"],
      [kind |-> "response", value |-> "2.05"], [kind |-> "response", value |-> "4.04"] }

\* What Message.parse returns for the datagrams the model receives.
Messages ==
    [code : InboundCodes, token : InboundTokens, payload : {<< >>, <<7>>}]

\* The responses to the first request of a connection.
FirstResponses ==
    { m \in Messages : /\ m.code.value = "2.05"
                       /\ m.payload = <<7>>
                       /\ \E t \in RandomTokens : m.token = incrementToken(t) }

\* The messages SpecRouter receives: a response to every token a connection
\* can have allocated, a response of another code and payload, responses whose
\* token is absent, empty or unknown, and a message of each other class.
RouterMessages ==
    { m \in Messages :
        \/ m.code.value = "2.05" /\ m.payload = <<7>>
        \/ m.code.value = "4.04" /\ m.payload = << >> /\ m.token = <<0, 0, 0, 1>>
        \/ ~isResponseCode(m.code) /\ m.payload = <<7>> /\ m.token = <<0, 0, 0, 1>> }

\* MessageCode.isEmpty, isRequest, isResponse
isEmpty(code) == code.kind = "empty"
isRequest(code) == code.kind = "request"
isResponse(code) == isResponseCode(code)

\* MessageCodes.request[method]
requestCode(method) == [kind |-> "request", value |-> method]

(***************************************************************************)
(* The initial state: the three tables are empty (lines 122-126).          *)
(***************************************************************************)
NoValue == [kind |-> "none", value |-> "none"]

\* A table ({}) with no own property.
EmptyTable == [k \in {} |-> 0]

NoMessage == [code |-> NoValue, token |-> NoBuffer, payload |-> << >>]

ClientInit ==
    /\ connections = EmptyTable
    /\ dtlsParams = {}
    /\ pendingRequests = EmptyTable
    /\ conns = << >>
    /\ sockets = << >>
    /\ calls = << >>
    /\ pc = << >>
    /\ reqConn = << >>
    /\ reqSock = << >>
    /\ handle = << >>
    /\ sent = << >>
    /\ microtasks = << >>
    /\ uncaught = FALSE
    /\ inbound = NoMessage
    /\ inboundOrigin = ""

FnIdle ==
    /\ fnArg = << >>
    /\ fnRes = << >>
    /\ fnDone = FALSE
    /\ fnCount = 0

Init == ClientInit /\ FnIdle

(***************************************************************************)
(* Helpers of the actions.                                                 *)
(***************************************************************************)
\* table.hasOwnProperty(key), for the keys of the model
hasOwnProperty(table, key) == key \in DOMAIN table

\* table[key] = value
setProperty(table, key, value) == (key :> value) @@ table

\* delete table[key]
deleteProperty(table, key) == [k \in DOMAIN table \ {key} |-> table[k]]

\* getSocket with the default case falling through to the plain socket.
getSocketAnyProtocol(origin, params) ==
    IF origin.protocol = "coaps:"
    THEN IF origin.hostname \in params THEN "dtls" ELSE "reject"
    ELSE "udp"

\* getSocket without the look-up of the security parameters.
getSocketNoParamsCheck(origin, params) ==
    CASE origin.protocol = "coap:" -> "udp"
      [] origin.protocol = "coaps:" -> "dtls"
      [] OTHER -> "throw"

\* What getSocket does for an origin, synchronously: "udp": creates a dgram
\* socket and returns a resolved promise; "dtls": creates a dtls socket and
\* returns the promise its events settle; "reject": returns a rejected
\* promise; "throw": throws.
getSocket(origin, params) ==
    CASE origin.protocol = "coap:" -> "udp"
      [] origin.protocol = "coaps:" ->
            IF origin.hostname \in params THEN "dtls" ELSE "reject"
      [] OTHER -> "throw"

\* What getConnection does for an origin, synchronously: "existing": returns
\* the registered connection; otherwise what getSocket does.
getConnection(table, origin, params) ==
    IF hasOwnProperty(table, toString(origin))
    THEN "existing"
    ELSE getSocket(origin, params)

NoListener == [fn |-> "none", bound |-> ""]

\* dgram.createSocket("udp4") / dtls.createSocket(dtlsOpts)
createSocket(isDtls, origin) ==
    [isDtls |-> isDtls, address |-> origin.hostname, port |-> origin.port,
     state |-> IF isDtls THEN "connecting" ELSE "open", listener |-> NoListener]

\* payload || Buffer.from([])
payloadOf(payload) == IF payload = NoBuffer THEN << >> ELSE payload

\* options.confirmable ? MessageType.CON : MessageType.NON
messageType(confirmable) == IF confirmable = "true" THEN "CON" ELSE "NON"

\* msgOptions of request: Observe, one Uri-Path per path part, Content-Format.
msgOptionsOf(options, pathname) ==
    LET parts == pathParts(pathname) IN
    << [name |-> "Observe", value |-> <<options.observe>>] >>
    \o [i \in 1..Len(parts) |-> [name |-> "Uri-Path", value |-> parts[i]]]
    \o << [name |-> "Content-Format", value |-> <<"application/json">>] >>

\* A promise that is still pending.
PendingPromise == [state |-> "pending", resolves |-> 0, value |-> NoValue, payload |-> << >>]

\* A microtask is queued: a call is about to resume after an await.
MicrotaskQueued == microtasks # << >>

\* Two queued calls wait on the same chain of promises: they resume in the order
\* they were queued.  Calls on different chains resume in an order that depends
\* on how the build compiles await, and a failing call touches no state.
SameChain(q, r) ==
    /\ pc[q] = pc[r]
    /\ pc[r] # "throwing"
    /\ (reqSock[q] = 0) = (reqSock[r] = 0)
    /\ reqSock[r] # 0 /\ reqSock[q] # 0 =>
            sockets[reqSock[q]].isDtls = sockets[reqSock[r]].isDtls

\* Call r is queued and no call of its chain is queued before it.
Runnable(r) ==
    \E i \in 1..Len(microtasks) :
        /\ microtasks[i] = r
        /\ \A j \in 1..(i - 1) : ~SameChain(microtasks[j], r)

\* The queue without call r.
Dequeue(r) ==
    LET Other(q) == q # r IN SelectSeq(microtasks, Other)

(***************************************************************************)
(* request, up to its await of getConnection (lines 150-165), with the     *)
(* part of getConnection (281-287) and of getSocket (306-337) that runs    *)
(* before the first suspension.                                            *)
(***************************************************************************)
request(in, maxCalls) ==
    LET r == Len(calls) + 1
        options == normalizeOptions(in.options)
        origin == fromUrl(in.url)
        originString == toString(origin)
        branch == getConnection(connections, origin, dtlsParams)
    IN  /\ ~uncaught
        /\ Len(calls) < maxCalls
        /\ calls' = Append(calls, [url |-> in.url, method |-> in.method,
                                   payload |-> in.payload, given |-> in.options,
                                   options |-> options])
        /\ handle' = Append(handle, PendingPromise)
        /\ microtasks' = IF branch = "dtls" THEN microtasks ELSE Append(microtasks, r)
        /\ CASE branch = "existing" ->
                   /\ pc' = Append(pc, "connection")
                   /\ reqConn' = Append(reqConn, connections[originString])
                   /\ reqSock' = Append(reqSock, 0)
                   /\ UNCHANGED sockets
             [] branch = "udp" ->
                   /\ sockets' = Append(sockets, createSocket(FALSE, origin))
                   /\ pc' = Append(pc, "socket")
                   /\ reqConn' = Append(reqConn, 0)
                   /\ reqSock' = Append(reqSock, Len(sockets) + 1)
             [] branch = "dtls" ->
                   /\ sockets' = Append(sockets, createSocket(TRUE, origin))
                   /\ pc' = Append(pc, "handshake")
                   /\ reqConn' = Append(reqConn, 0)
                   /\ reqSock' = Append(reqSock, Len(sockets) + 1)
             [] OTHER ->
                   /\ pc' = Append(pc, "throwing")
                   /\ reqConn' = Append(reqConn, 0)
                   /\ reqSock' = Append(reqSock, 0)
                   /\ UNCHANGED sockets
        /\ UNCHANGED << connections, dtlsParams, pendingRequests, conns, sent,
                        uncaught, inbound, inboundOrigin, fnVars >>

\* The "connected" event of a dtls socket (line 329): the promise of getSocket
\* resolves with a SocketWrapper of the socket.
connected(s) ==
    /\ ~uncaught
    /\ ~MicrotaskQueued
    /\ sockets[s].state = "connecting"
    /\ sockets' = [sockets EXCEPT ![s].state = "connected"]
    /\ pc' = [r \in 1..Len(pc) |->
                IF reqSock[r] = s /\ pc[r] = "handshake" THEN "socket" ELSE pc[r]]
    /\ microtasks' = LET Waiting(r) == reqSock[r] = s /\ pc[r] = "handshake"
                         ids == [r \in 1..Len(pc) |-> r]
                     IN  microtasks \o SelectSeq(ids, Waiting)
    /\ UNCHANGED << connections, dtlsParams, pendingRequests, conns, calls, reqConn,
                    reqSock, handle, sent, uncaught, inbound, inboundOrigin, fnVars >>

\* An "error" event that resolves the promise of getSocket with the socket.
errorResolves(s) ==
    /\ ~uncaught
    /\ ~MicrotaskQueued
    /\ sockets[s].state = "connecting"
    /\ sockets' = [sockets EXCEPT ![s].state = "error"]
    /\ pc' = [r \in 1..Len(pc) |->
                IF reqSock[r] = s /\ pc[r] = "handshake" THEN "socket" ELSE pc[r]]
    /\ microtasks' = LET Waiting(r) == reqSock[r] = s /\ pc[r] = "handshake"
                         ids == [r \in 1..Len(pc) |-> r]
                     IN  microtasks \o SelectSeq(ids, Waiting)
    /\ UNCHANGED << connections, dtlsParams, pendingRequests, conns, calls, reqConn,
                    reqSock, handle, sent, uncaught, inbound, inboundOrigin, fnVars >>

\* The "error" event of a dtls socket during the handshake (line 330): the
\* promise of getSocket rejects.
error(s) ==
    /\ ~uncaught
    /\ ~MicrotaskQueued
    /\ sockets[s].state = "connecting"
    /\ sockets' = [sockets EXCEPT ![s].state = "error"]
    /\ pc' = [r \in 1..Len(pc) |->
                IF reqSock[r] = s /\ pc[r] = "handshake" THEN "throwing" ELSE pc[r]]
    /\ microtasks' = LET Waiting(r) == reqSock[r] = s /\ pc[r] = "handshake"
                         ids == [r \in 1..Len(pc) |-> r]
                     IN  microtasks \o SelectSeq(ids, Waiting)
    /\ UNCHANGED << connections, dtlsParams, pendingRequests, conns, calls, reqConn,
                    reqSock, handle, sent, uncaught, inbound, inboundOrigin, fnVars >>

\* getConnection after its await of getSocket (lines 287-298).
getConnectionResume(r, randomBytes) ==
    LET origin == fromUrl(calls[r].url)
        originString == toString(origin)
        socket == reqSock[r]
        ret == [origin |-> origin, socket |-> socket, lastMsgId |-> 0,
                lastToken |-> randomBytes]
    IN  /\ ~uncaught
        /\ pc[r] = "socket"
        /\ Runnable(r)
        /\ microtasks' = Append(Dequeue(r), r)
        /\ sockets' = [sockets EXCEPT ![socket].listener =
                            [fn |-> "CoapClient", bound |-> originString]]
        /\ conns' = Append(conns, ret)
        /\ connections' = setProperty(connections, originString, Len(conns) + 1)
        /\ reqConn' = [reqConn EXCEPT ![r] = Len(conns) + 1]
        /\ pc' = [pc EXCEPT ![r] = "connection"]
        /\ UNCHANGED << dtlsParams, pendingRequests, calls, reqSock, handle, sent,
                        uncaught, inbound, inboundOrigin, fnVars >>

\* The rejection of getSocket's promise, or its throw, leaves getConnection and
\* request through their awaits: the promise request returned is rejected.
requestThrows(r) ==
    LET reason == IF reqSock[r] # 0 THEN "handshake error"
                  ELSE IF calls[r].url.protocol = "coaps:"
                       THEN "No security parameters given"
                       ELSE "protocol type is not supported"
    IN  /\ ~uncaught
        /\ pc[r] = "throwing"
        /\ Runnable(r)
        /\ microtasks' = Dequeue(r)
        /\ pc' = [pc EXCEPT ![r] = "rejected"]
        /\ handle' = [handle EXCEPT ![r] =
                          [state |-> "rejected", resolves |-> 0,
                           value |-> [kind |-> "error", value |-> reason],
                           payload |-> << >>]]
        /\ UNCHANGED << connections, dtlsParams, pendingRequests, conns, sockets,
                        calls, reqConn, reqSock, sent, uncaught, inbound, inboundOrigin, fnVars >>

\* CoapClient.send that leaves the token out of the message.
sendWithoutToken(connection, type, code, messageId, token, options, payload) ==
    LET socket == sockets[connection.socket] IN
    [socket |-> connection.socket,
     to |-> IF socket.isDtls THEN << >>
            ELSE << connection.origin.hostname, ToString(connection.origin.port) >>,
     message |-> [version |-> 1, type |-> type, code |-> code,
                  messageId |-> messageId, token |-> << >>, options |-> options,
                  payload |-> payload]]

\* CoapClient.send: the datagram SocketWrapper.send hands to the socket, with
\* the destination a dgram socket is given (a dtls socket is given none).
send(connection, type, code, messageId, token, options, payload) ==
    LET socket == sockets[connection.socket] IN
    [socket |-> connection.socket,
     to |-> IF socket.isDtls THEN << >>
            ELSE << connection.origin.hostname, ToString(connection.origin.port) >>,
     message |-> [version |-> 1, type |-> type, code |-> code,
                  messageId |-> messageId, token |-> token, options |-> options,
                  payload |-> payload]]

\* request after its await of getConnection (lines 165-205).
requestResume(r) ==
    LET options == calls[r].options
        originString == toString(fromUrl(calls[r].url))
        c == reqConn[r]
        messageId == incrementMessageID(conns[c].lastMsgId)
        token == incrementToken(conns[c].lastToken)
        tokenString == toHex(token)
        connection == [conns[c] EXCEPT !.lastMsgId = messageId, !.lastToken = token]
        req == [origin |-> originString, token |-> c,
                keepAlive |-> options.keepAlive, callback |-> r]
    IN  /\ ~uncaught
        /\ pc[r] = "connection"
        /\ Runnable(r)
        /\ microtasks' = Dequeue(r)
        /\ conns' = [conns EXCEPT ![c] = connection]
        /\ pendingRequests' = setProperty(pendingRequests, tokenString, req)
        /\ sent' = Append(sent,
                send(connection, messageType(options.confirmable),
                     requestCode(calls[r].method), messageId, token,
                     msgOptionsOf(options, calls[r].url.pathname),
                     payloadOf(calls[r].payload)))
        /\ pc' = [pc EXCEPT ![r] = "returned"]
        /\ UNCHANGED << connections, dtlsParams, sockets, calls, reqConn, reqSock,
                        handle, uncaught, inbound, inboundOrigin, fnVars >>

\* DeferredPromise.resolve: only the first settles the promise.
resolve(promise, response) ==
    IF promise.state = "pending"
    THEN [state |-> "resolved", resolves |-> promise.resolves + 1,
          value |-> response.code, payload |-> response.payload]
    ELSE [promise EXCEPT !.resolves = promise.resolves + 1]

\* onMessage that looks no token up: it resolves the oldest pending request.
matchingRequestAny(table, coapMsg) ==
    IF isResponse(coapMsg.code) /\ DOMAIN table # {}
    THEN CHOOSE k \in DOMAIN table :
            \A j \in DOMAIN table : table[k].callback <= table[j].callback
    ELSE ""

\* onMessage that does not look at the class of the code: any message whose
\* token has an entry resolves it.
matchingRequestAnyClass(table, coapMsg) ==
    IF coapMsg.token # NoBuffer /\ Len(coapMsg.token) > 0
    THEN IF hasOwnProperty(table, toHex(coapMsg.token))
         THEN toHex(coapMsg.token)
         ELSE ""
    ELSE ""

\* The key of the pending request onMessage resolves for a message, "" when it
\* resolves none (lines 213-241).
matchingRequest(table, coapMsg) ==
    IF isEmpty(coapMsg.code) THEN ""
    ELSE IF isRequest(coapMsg.code) THEN ""
    ELSE IF isResponse(coapMsg.code)
         THEN IF coapMsg.token # NoBuffer /\ Len(coapMsg.token) > 0
              THEN IF hasOwnProperty(table, toHex(coapMsg.token))
                   THEN toHex(coapMsg.token)
                   ELSE ""
              ELSE ""
         ELSE ""

\* CoapClient.onMessage(origin, message, rinfo), coapMsg being what
\* Message.parse makes of the message.  The method does not read origin.
onMessage(origin, coapMsg) ==
    LET tokenString == matchingRequest(pendingRequests, coapMsg) IN
    /\ ~uncaught
    /\ inbound' = coapMsg
    /\ inboundOrigin' = origin
    /\ IF tokenString # ""
       THEN LET request_ == pendingRequests[tokenString]
                response == [code |-> coapMsg.code, payload |-> coapMsg.payload]
            IN  /\ pendingRequests' = deleteProperty(pendingRequests, tokenString)
                /\ handle' = [handle EXCEPT ![request_.callback] =
                                  resolve(handle[request_.callback], response)]
       ELSE UNCHANGED << pendingRequests, handle >>
    /\ UNCHANGED microtasks
    /\ UNCHANGED << connections, dtlsParams, conns, sockets, calls, pc, reqConn,
                    reqSock, sent, uncaught, fnVars >>

\* CoapClient.setSecurityParams
setSecurityParams(hostname) ==
    /\ ~uncaught
    /\ dtlsParams' = dtlsParams \cup {hostname}
    /\ UNCHANGED microtasks
    /\ UNCHANGED << connections, pendingRequests, conns, sockets, calls, pc, reqConn,
                    reqSock, handle, sent, uncaught, inbound, inboundOrigin, fnVars >>

\* A datagram arrives on a socket: the listener getConnection attached runs.
\* The listener is CoapClient.bind(CoapClient, originString), the class itself
\* called as a function: compiled to a function it returns at once ...
messageIgnored(s) ==
    /\ ~uncaught
    /\ ~MicrotaskQueued
    /\ sockets[s].listener.fn = "CoapClient"
    /\ UNCHANGED vars

\* ... and left a class it throws a TypeError out of the event.
messageThrows(s) ==
    /\ ~uncaught
    /\ ~MicrotaskQueued
    /\ sockets[s].listener.fn = "CoapClient"
    /\ uncaught' = TRUE
    /\ UNCHANGED microtasks
    /\ UNCHANGED << connections, dtlsParams, pendingRequests, conns, sockets, calls,
                    pc, reqConn, reqSock, handle, sent, inbound, inboundOrigin, fnVars >>

(***************************************************************************)
(* The sequence generators and the path split on their own.                *)
(***************************************************************************)
Bytes == {0, 1, ByteMax - 1, ByteMax}

SeqsUpTo(S, n) == UNION { [1..k -> S] : k \in 0..n }

applyIncrementToken ==
    /\ ~fnDone
    /\ fnRes' = incrementToken(fnArg)
    /\ fnDone' = TRUE
    /\ UNCHANGED << fnArg, fnCount, clientVars >>

applyIncrementMessageID ==
    /\ ~fnDone
    /\ fnRes' = incrementMessageID(fnArg)
    /\ fnDone' = TRUE
    /\ UNCHANGED << fnArg, fnCount, clientVars >>

applyPathParts ==
    /\ ~fnDone
    /\ fnRes' = pathParts(fnArg)
    /\ fnDone' = TRUE
    /\ UNCHANGED << fnArg, fnCount, clientVars >>

InitToken ==
    /\ ClientInit
    /\ fnArg \in SeqsUpTo(Bytes, MaxTokLen)
    /\ fnRes = << >>
    /\ fnDone = FALSE
    /\ fnCount = 0

InitMessageID ==
    /\ ClientInit
    /\ fnArg \in 0..MsgIdMax
    /\ fnRes = 0
    /\ fnDone = FALSE
    /\ fnCount = 0

InitPath ==
    /\ ClientInit
    /\ fnArg \in SeqsUpTo({"/", "a", "b"}, MaxPathLen) \cup {NoPath}
    /\ fnRes = << >>
    /\ fnDone = FALSE
    /\ fnCount = 0

SpecToken == InitToken /\ [][applyIncrementToken]_vars
SpecMessageID == InitMessageID /\ [][applyIncrementMessageID]_vars
SpecPath == InitPath /\ [][applyPathParts]_vars

(***************************************************************************)
(* The client.  Spec: calls to every URL, with no options, and every event.*)
(***************************************************************************)
OriginStrings == { toString(fromUrl(u)) : u \in Urls }

Next ==
    \/ \E in \in CallsTo({UrlPlain, UrlOtherPort, UrlSecure, UrlHttp}) :
            request(in, MaxRequests)
    \/ \E s \in 1..Len(sockets) : connected(s)
    \/ \E s \in 1..Len(sockets) : error(s)
    \/ \E r \in 1..Len(calls), t \in RandomTokens : getConnectionResume(r, t)
    \/ \E r \in 1..Len(calls) : requestThrows(r)
    \/ \E r \in 1..Len(calls) : requestResume(r)
    \/ \E o \in {toString(fromUrl(UrlPlain))}, m \in FirstResponses : onMessage(o, m)
    \/ setSecurityParams("h1")
    \/ \E s \in 1..Len(sockets) : messageIgnored(s)
    \/ \E s \in 1..Len(sockets) : messageThrows(s)

Spec == Init /\ [][Next]_vars

\* SpecSecure: calls to the secured URLs, parameters set for either host.
NextSecure ==
    \/ \E in \in CallsTo({UrlSecure, UrlSecureOtherHost}) : request(in, MaxRequests)
    \/ \E s \in 1..Len(sockets) : connected(s)
    \/ \E s \in 1..Len(sockets) : error(s)
    \/ \E r \in 1..Len(calls), t \in RandomTokens : getConnectionResume(r, t)
    \/ \E r \in 1..Len(calls) : requestThrows(r)
    \/ \E r \in 1..Len(calls) : requestResume(r)
    \/ \E h \in Hostnames : setSecurityParams(h)

SpecSecure == Init /\ [][NextSecure]_vars

\* SpecRouter: calls to one plain URL, and every shape of inbound message.
NextRouter ==
    \/ \E in \in CallsTo({UrlPlain}) : request(in, MaxRequests)
    \/ \E r \in 1..Len(calls), t \in RandomTokens : getConnectionResume(r, t)
    \/ \E r \in 1..Len(calls) : requestResume(r)
    \/ \E o \in {toString(fromUrl(UrlPlain))}, m \in RouterMessages : onMessage(o, m)

SpecRouter == Init /\ [][NextRouter]_vars

\* SpecReuse: more calls, to two ports of one host.
NextReuse ==
    \/ \E in \in CallsTo({UrlPlain, UrlOtherPort}) : request(in, MaxReuse)
    \/ \E r \in 1..Len(calls), t \in RandomTokens : getConnectionResume(r, t)
    \/ \E r \in 1..Len(calls) : requestResume(r)

SpecReuse == Init /\ [][NextReuse]_vars

\* SpecOptions: calls with every value of the options.
NextOptions ==
    \/ \E in \in OptionCalls : request(in, MaxOptionCalls)
    \/ \E r \in 1..Len(calls), t \in RandomTokens : getConnectionResume(r, t)
    \/ \E r \in 1..Len(calls) : requestResume(r)

SpecOptions == Init /\ [][NextOptions]_vars

(***************************************************************************)
(* The sequence generators and the path split: claims C4, C5, C7.          *)
(***************************************************************************)
\* C4 (as claimed): incrementMessageID(current) is current + 1 for current in
\* 0..0xFFFE and 1 for current = 0xFFFF; it is never 0 and never above 0xFFFF.
C4_MessageIdIncrement ==
    fnDone =>
        /\ fnRes = IF fnArg = MsgIdMax THEN 1 ELSE fnArg + 1
        /\ fnRes # 0
        /\ fnRes <= MsgIdMax

RECURSIVE TrailingSaturated(_)
\* How many bytes at the end of a token are 0xFF.
TrailingSaturated(token) ==
    IF token = << >> \/ token[Len(token)] # ByteMax THEN 0
    ELSE 1 + TrailingSaturated(SubSeq(token, 1, Len(token) - 1))

\* C5: incrementToken is a big-endian increment modulo 256^n: the trailing 0xFF
\* bytes become 0x00, the byte before them is incremented, the bytes to its left
\* are unchanged, all-0xFF wraps to all-zero, and the length is unchanged.
C5_TokenIncrement ==
    fnDone =>
        LET n == Len(fnArg)
            k == TrailingSaturated(fnArg)
        IN  /\ Len(fnRes) = n
            /\ \A i \in 1..n :
                    fnRes[i] = IF i > n - k THEN 0
                               ELSE IF i = n - k THEN fnArg[i] + 1
                               ELSE fnArg[i]
            /\ (fnArg = <<0, 0, 0, ByteMax>> => fnRes = <<0, 0, 1, 0>>)
            /\ (fnArg = <<ByteMax, ByteMax, ByteMax, ByteMax>> => fnRes = <<0, 0, 0, 0>>)

\* C5's case: a carry out of the last byte has been applied.
C5_Witness ==
    fnDone /\ fnArg = <<0, 0, 0, ByteMax>> /\ fnRes = <<0, 0, 1, 0>>

\* C7 (as claimed): the Uri-Path options are the non-empty segments of the path,
\* in order: "/a/b/" gives "a" then "b", and "/" and "" give none.
C7_PathOptions ==
    fnDone =>
        LET NonEmpty(part) == part # << >>
            segments == split(pathnameOf(fnArg))
        IN  /\ fnRes = SelectSeq(segments, NonEmpty)
            /\ (fnArg = <<"/", "a", "/", "b", "/">> => fnRes = << <<"a">>, <<"b">> >>)
            /\ (fnArg \in { <<"/">>, << >> } => fnRes = << >>)

(***************************************************************************)
(* The client: claims C1, C2, C3, C6, C8, C9, C10.                         *)
(***************************************************************************)
\* The origin string of call r.
OriginOf(r) == toString(fromUrl(calls[r].url))

\* The step is one of call r: the call is made, or it moves on.
StepOf(r) ==
    \/ r = Len(calls) + 1 /\ Len(calls') = r
    \/ r <= Len(calls) /\ (pc'[r] # pc[r] \/ handle'[r] # handle[r])

\* The step is the call r being made.
StartOf(r) == r = Len(calls) + 1 /\ Len(calls') = r

\* C1 (as claimed): two calls to one origin string use the same Connection, also
\* when both are made before the connection is registered: one Connection object
\* and one socket per origin are ever created.
C1_OneConnectionPerOrigin ==
    /\ \A r1, r2 \in 1..Len(calls) :
            (OriginOf(r1) = OriginOf(r2) /\ reqConn[r1] # 0 /\ reqConn[r2] # 0)
                => reqConn[r1] = reqConn[r2]
    /\ \A c1, c2 \in 1..Len(conns) :
            toString(conns[c1].origin) = toString(conns[c2].origin) => c1 = c2
    /\ \A s1, s2 \in 1..Len(sockets) :
            (sockets[s1].address = sockets[s2].address
                /\ sockets[s1].port = sockets[s2].port
                /\ sockets[s1].isDtls = sockets[s2].isDtls) => s1 = s2

\* The first Connection registered for an origin string (0: none yet).
FirstConn(cs, originString) ==
    LET S == { c \in 1..Len(cs) : toString(cs[c].origin) = originString } IN
    IF S = {} THEN 0 ELSE CHOOSE c \in S : \A d \in S : c <= d

\* C2 (as claimed): once getConnection has completed for an origin, every later
\* call with the same origin string gets that Connection, creating no socket and
\* leaving the registry alone; a call to another port gets a second Connection
\* with its own socket, lastMsgId and lastToken and leaves the first unchanged.
C2_ReuseAfterRegistration ==
    [][ /\ \A r \in 1..Len(calls') :
              (StartOf(r) /\ hasOwnProperty(connections, toString(fromUrl(calls'[r].url))))
                  => /\ reqConn'[r] = FirstConn(conns, toString(fromUrl(calls'[r].url)))
                     /\ UNCHANGED << sockets, connections, conns >>
        /\ Len(conns') > Len(conns) =>
              /\ conns' = Append(conns, conns'[Len(conns')])
              /\ conns'[Len(conns')].lastMsgId = 0
              /\ conns'[Len(conns')].lastToken \in RandomTokens
              /\ \A c \in 1..Len(conns) : conns[c].socket # conns'[Len(conns')].socket
      ]_vars

\* C10 (as claimed): the k-th request dispatched on a connection is sent with
\* message id k and with the connection's token incremented once more, so two
\* consecutive requests of a connection differ in message id and in token.
C10_SequentialAllocation ==
    \A c \in 1..Len(conns) :
        LET OnConnection(d) == d.socket = conns[c].socket
            out == SelectSeq(sent, OnConnection)
        IN  /\ \A k \in 1..Len(out) : out[k].message.messageId = k
            /\ \A k \in 2..Len(out) :
                    /\ out[k].message.token = incrementToken(out[k - 1].message.token)
                    /\ out[k].message.token # out[k - 1].message.token
                    /\ out[k].message.messageId # out[k - 1].message.messageId
            /\ Len(out) > 0 => out[Len(out)].message.token = conns[c].lastToken

\* The step is a run of onMessage (every other action of the client extends
\* calls, conns or sent, moves a call on, or changes a socket or the parameters).
RouterStep ==
    UNCHANGED << calls, conns, sent, pc, sockets, dtlsParams, uncaught >>

\* The message the router has just processed is a response that carries the
\* token whose hex form is key.
ResponseFor(coapMsg, key) ==
    /\ coapMsg.code.kind = "response"
    /\ coapMsg.token # NoBuffer
    /\ coapMsg.token # << >>
    /\ toHex(coapMsg.token) = key

\* C3: when the router processes a response carrying the token of an entry of
\* the pending table, it removes that entry and no other and resolves the
\* entry's handle, once, with the message's code and payload; a response whose
\* token has no entry (as a second one has) changes neither table nor handles.
C3_ResponseResolvesOnce ==
    [][ RouterStep =>
          /\ \A key \in DOMAIN pendingRequests :
                ResponseFor(inbound', key) =>
                    LET r == pendingRequests[key].callback IN
                    /\ DOMAIN pendingRequests' = DOMAIN pendingRequests \ {key}
                    /\ \A k \in DOMAIN pendingRequests' :
                            pendingRequests'[k] = pendingRequests[k]
                    /\ handle[r].state = "pending" /\ handle[r].resolves = 0
                    /\ handle'[r] = [state |-> "resolved", resolves |-> 1,
                                     value |-> inbound'.code,
                                     payload |-> inbound'.payload]
                    /\ \A q \in 1..Len(handle) : q # r => handle'[q] = handle[q]
          /\ (/\ inbound'.code.kind = "response"
               /\ inbound'.token # NoBuffer
               /\ inbound'.token # << >>
               /\ ~hasOwnProperty(pendingRequests, toHex(inbound'.token)))
                => UNCHANGED << pendingRequests, handle >>
      ]_vars

\* C3's case: a response has resolved one request and left another pending.
C3_Witness ==
    \E r \in 1..Len(calls) :
        /\ handle[r].state = "resolved"
        /\ handle[r].resolves = 1
        /\ handle[r].value = inbound.code
        /\ inbound.token # NoBuffer
        /\ ~hasOwnProperty(pendingRequests, toHex(inbound.token))
        /\ DOMAIN pendingRequests # {}

\* C6: a call to a coaps: origin whose hostname has no security parameters is
\* rejected with no socket created, no registry entry, no pending entry and no
\* datagram; with the parameters set, a call to the origin opens a dtls socket.
C6_MissingSecurityParams ==
    [][ \A r \in 1..Len(calls') :
          LET url == calls'[r].url IN
          url.protocol = "coaps:" =>
            /\ (StartOf(r) /\ url.hostname \notin dtlsParams) =>
                  /\ pc'[r] = "throwing"
                  /\ reqSock'[r] = 0 /\ reqConn'[r] = 0
                  /\ UNCHANGED << sockets, connections, conns, pendingRequests, sent >>
            /\ (r <= Len(calls) /\ pc[r] = "throwing" /\ reqSock[r] = 0 /\ StepOf(r)) =>
                  /\ pc'[r] = "rejected"
                  /\ handle'[r].state = "rejected"
                  /\ UNCHANGED << sockets, connections, conns, pendingRequests, sent >>
            /\ (StartOf(r) /\ url.hostname \in dtlsParams
                     /\ ~hasOwnProperty(connections, toString(fromUrl(url)))) =>
                  /\ pc'[r] = "handshake"
                  /\ reqSock'[r] = Len(sockets) + 1
                  /\ sockets' = Append(sockets, sockets'[Len(sockets')])
                  /\ sockets'[Len(sockets')].isDtls
                  /\ sockets'[Len(sockets')].state = "connecting"
                  /\ sockets'[Len(sockets')].address = url.hostname
      ]_vars

\* C6's case: a call was rejected for want of parameters, with no socket, and a
\* later call to the same origin is in its handshake.
C6_Witness ==
    \E r1, r2 \in 1..Len(calls) :
        /\ r1 < r2
        /\ calls[r1].url = calls[r2].url
        /\ calls[r1].url.protocol = "coaps:"
        /\ pc[r1] = "rejected" /\ handle[r1].state = "rejected" /\ reqSock[r1] = 0
        /\ pc[r2] = "handshake" /\ sockets[reqSock[r2]].isDtls

C9_UnsupportedScheme ==
    [][ \A r \in 1..Len(calls') :
          (calls'[r].url.protocol \notin {"coap:", "coaps:"} /\ StepOf(r)) =>
            /\ pc'[r] \in {"throwing", "rejected"}
            /\ pc'[r] = "rejected" => handle'[r].state = "rejected"
            /\ pc'[r] = "throwing" => handle'[r].state = "pending"
            /\ reqSock'[r] = 0 /\ reqConn'[r] = 0
            /\ UNCHANGED << sockets, connections, conns, pendingRequests, sent >>
      ]_vars

\* C9's case: a call to an http: URL has been rejected.
C9_Witness ==
    \E r \in 1..Len(calls) :
        /\ calls[r].url.protocol = "http:"
        /\ pc[r] = "rejected"
        /\ handle[r].state = "rejected"
        /\ reqSock[r] = 0

(***************************************************************************)
(* The inbound path: claim C11.                                            *)
(***************************************************************************)
\* C11 (as claimed): the handler getConnection attaches to a connection's socket
\* is onMessage bound to the connection's origin string, so a datagram received
\* on the socket is processed by onMessage and leaves no error uncaught.
C11_ListenerIsRouter ==
    /\ \A c \in 1..Len(conns) :
            sockets[conns[c].socket].listener =
                [fn |-> "onMessage", bound |-> toString(conns[c].origin)]
    /\ ~uncaught

(***************************************************************************)
(* The pending table: claims C12, C13.                                     *)
(***************************************************************************)
\* C12 (as claimed): when request registers a PendingRequest under a token key,
\* no entry exists under that key, on whichever connection the earlier request
\* was dispatched, and every dispatched request whose handle is unresolved has
\* its entry in the table.
C12_RegistrationNeverOverwrites ==
    [][ /\ \A r \in 1..Len(calls) :
              (pc[r] = "connection" /\ pc'[r] = "returned") =>
                  ~hasOwnProperty(pendingRequests,
                                  toHex(sent'[Len(sent')].message.token))
        /\ \A r \in 1..Len(calls') :
              (pc'[r] = "returned" /\ handle'[r].state = "pending") =>
                  \E k \in DOMAIN pendingRequests' :
                      pendingRequests'[k].callback = r
      ]_vars

\* The bytes now in the Buffer a PendingRequest's token field refers to: the
\* lastToken Buffer of the connection the request was dispatched on.
tokenOf(req) == conns[req.token].lastToken

\* C13 (as claimed): every entry of the pending table stored under key k has a
\* token field whose hex encoding is k; dispatching a later request on the same
\* connection does not change the token field of an earlier, pending entry.
C13_KeyIsHexOfToken ==
    \A k \in DOMAIN pendingRequests : toHex(tokenOf(pendingRequests[k])) = k

(***************************************************************************)
(* Failed acquisition: claim C14.                                          *)
(***************************************************************************)
\* Call r has failed to acquire its connection.
Failed(ps, r) == ps[r] \in {"throwing", "rejected"}

\* C14: when connection acquisition fails (unsupported scheme, no security
\* parameters, error event during the handshake) the call's handle is rejected
\* and no step of the failing call changes the registry, the pending table, a
\* connection's message id or token, or sends a datagram; a later call to the
\* same origin, still unregistered, runs getSocket afresh.
C14_FailureLeavesNoState ==
    [][ /\ \A s \in 1..Len(sockets) :
              (sockets[s].state # "error" /\ sockets'[s].state = "error") =>
                  \A r \in 1..Len(calls) :
                      (reqSock[r] = s /\ pc[r] = "handshake") => pc'[r] = "throwing"
        /\ \A r \in 1..Len(calls') :
              /\ (StepOf(r) /\ Failed(pc', r)) =>
                    /\ UNCHANGED << connections, pendingRequests, conns, sent >>
                    /\ reqConn'[r] = 0
                    /\ pc'[r] = "rejected" <=> handle'[r].state = "rejected"
              /\ (r <= Len(calls) /\ Failed(pc, r)) =>
                    /\ Failed(pc', r)
                    /\ StepOf(r) => pc'[r] = "rejected"
              /\ (/\ StartOf(r)
                  /\ ~hasOwnProperty(connections, toString(fromUrl(calls'[r].url)))
                  /\ \E q \in 1..Len(calls) :
                        Failed(pc, q) /\ calls[q].url = calls'[r].url) =>
                    /\ pc'[r] \in {"socket", "handshake", "throwing"}
                    /\ pc'[r] # "throwing" =>
                          /\ reqSock'[r] = Len(sockets) + 1
                          /\ Len(sockets') = Len(sockets) + 1
      ]_vars

\* C14's case: a call was rejected by an error event of its handshake, nothing
\* is registered, pending or sent, and a later call to the same origin is in a
\* handshake of its own on a new socket.
C14_Witness ==
    \E r1, r2 \in 1..Len(calls) :
        /\ r1 < r2
        /\ calls[r1].url = calls[r2].url
        /\ pc[r1] = "rejected" /\ handle[r1].state = "rejected"
        /\ reqSock[r1] # 0 /\ sockets[reqSock[r1]].state = "error"
        /\ pc[r2] = "handshake" /\ reqSock[r2] \notin {0, reqSock[r1]}
        /\ DOMAIN connections = {} /\ DOMAIN pendingRequests = {} /\ sent = << >>

(***************************************************************************)
(* The router's frame: claim C15.                                          *)
(***************************************************************************)
\* The message is not a response that carries the token of an entry of table:
\* its code is empty or a request code, or it is a response whose token is
\* absent, empty, or has no entry.
Unmatched(coapMsg, table) ==
    \/ coapMsg.code.kind \in {"empty", "request"}
    \/ /\ coapMsg.code.kind = "response"
       /\ IF coapMsg.token = NoBuffer \/ coapMsg.token = << >>
          THEN TRUE
          ELSE toHex(coapMsg.token) \notin DOMAIN table

\* C15: the router changes nothing for a message that is not a matched
\* response: the pending table, the registry, the connections and every handle
\* are as before, and no error leaves the handler.
C15_UnmatchedChangesNothing ==
    [][ (RouterStep /\ Unmatched(inbound', pendingRequests)) =>
            /\ UNCHANGED << pendingRequests, connections, conns, handle >>
            /\ ~uncaught'
      ]_vars

\* C15's case: the router has processed an empty-coded message that carries the
\* token of a pending request, and the request is still pending.
C15_Witness ==
    /\ inbound.code.kind = "empty"
    /\ inbound.token # NoBuffer
    /\ inbound.token # << >>
    /\ hasOwnProperty(pendingRequests, toHex(inbound.token))
    /\ handle[pendingRequests[toHex(inbound.token)].callback].state = "pending"

(***************************************************************************)
(* Dispatch: claims C16, C17.                                              *)
(***************************************************************************)
\* The step is the dispatch of call r: request resumes with its connection,
\* registers the PendingRequest and sends the message.
Dispatch(r) == pc[r] = "connection" /\ pc'[r] = "returned"

SentOn(c) ==
    LET OnConnection(d) == d.socket = conns[c].socket IN SelectSeq(sent, OnConnection)

\* C17: every connection's lastMsgId is in 0..0xFFFF and is 0 exactly while no
\* request has been dispatched on the connection, and its lastToken is 4 bytes
\* long; every message sent has a message id in 1..0xFFFF and a 4-byte token.
C17_SequenceStateInRange ==
    /\ \A c \in 1..Len(conns) :
            /\ conns[c].lastMsgId \in 0..MsgIdMax
            /\ conns[c].lastMsgId = 0 <=> SentOn(c) = << >>
            /\ Len(conns[c].lastToken) = TokenLength
            /\ \A i \in 1..TokenLength : conns[c].lastToken[i] \in 0..ByteMax
    /\ \A i \in 1..Len(sent) :
            /\ sent[i].message.messageId \in 1..MsgIdMax
            /\ Len(sent[i].message.token) = TokenLength

\* C17's case: a connection on which no request has been dispatched yet, and a
\* connection on which the token wrapped around and a second request followed.
C17_Witness ==
    \E c1, c2 \in 1..Len(conns) :
        /\ SentOn(c1) = << >> /\ conns[c1].lastMsgId = 0
        /\ Len(SentOn(c2)) = 2
        /\ SentOn(c2)[1].message.token = [i \in 1..TokenLength |-> 0]
        /\ conns[c2].lastMsgId # 0

(***************************************************************************)
(* The life of a pending request: claim C18.                               *)
(***************************************************************************)
\* C18 (as claimed): a dispatched request whose handle is unresolved has its
\* entry in the pending table, and a step leaves the handle unresolved and the
\* entry in place unless the step is the router processing a response that
\* carries the entry's token; the handle is never rejected.
C18_PendingUntilResponse ==
    [][ \A r \in 1..Len(calls) :
          (pc[r] = "returned" /\ handle[r].state = "pending") =>
            /\ handle'[r].state # "rejected"
            /\ \E k \in DOMAIN pendingRequests : pendingRequests[k].callback = r
            /\ \A k \in DOMAIN pendingRequests :
                  (/\ pendingRequests[k].callback = r
                   /\ ~(RouterStep /\ ResponseFor(inbound', k))) =>
                        /\ handle'[r] = handle[r]
                        /\ hasOwnProperty(pendingRequests', k)
                        /\ pendingRequests'[k].callback = r
      ]_vars

(***************************************************************************)
(* The origin of a response: claim C19.                                    *)
(***************************************************************************)
\* SpecOrigins: calls to two ports of one host, and the router run for either
\* origin on the responses to a connection's first request.
NextOrigins ==
    \/ \E in \in CallsTo({UrlPlain, UrlOtherPort}) : request(in, MaxRequests)
    \/ \E r \in 1..Len(calls), t \in RandomTokens : getConnectionResume(r, t)
    \/ \E r \in 1..Len(calls) : requestResume(r)
    \/ \E u \in {UrlPlain, UrlOtherPort}, m \in FirstResponses :
            onMessage(toString(fromUrl(u)), m)

SpecOrigins == Init /\ [][NextOrigins]_vars

\* C19 (as claimed): whenever the router, run for origin O, resolves an entry
\* of the pending table, the origin string stored in the entry is O.
C19_ResolvedByOwnOrigin ==
    [][ RouterStep =>
          \A k \in DOMAIN pendingRequests \ DOMAIN pendingRequests' :
              pendingRequests[k].origin = inboundOrigin'
      ]_vars

(***************************************************************************)
(* The cycle of the token generator: claim C20.                            *)
(***************************************************************************)
\* 256^n: the number of tokens of n bytes.
TokenCount(n) == (ByteMax + 1) ^ n

\* The tokens a cycle is started from: all-zero and all-0xFF, of every length
\* up to MaxCycleBytes.
CycleStarts ==
    UNION { { [i \in 1..n |-> 0], [i \in 1..n |-> ByteMax] } : n \in 1..MaxCycleBytes }

InitCycle ==
    /\ ClientInit
    /\ fnArg \in CycleStarts
    /\ fnRes = fnArg
    /\ fnDone = FALSE
    /\ fnCount = 0

\* connection.lastToken = incrementToken(connection.lastToken) (line 171), once
\* more on the same Buffer, until the cycle of its length has been run through.
nextToken ==
    /\ fnCount < TokenCount(Len(fnArg))
    /\ fnRes' = incrementToken(fnRes)
    /\ fnCount' = fnCount + 1
    /\ fnDone' = TRUE
    /\ UNCHANGED << fnArg, clientVars >>

SpecCycle == InitCycle /\ [][nextToken]_vars

\* C20: from any n-byte token, incrementToken applied k times, 0 < k < 256^n,
\* gives a token other than the first, with another hex key, and applied 256^n
\* times gives the first again: the generator runs through all 256^n tokens
\* before it repeats one, so the keys of fewer than 256^n consecutive requests
\* of a connection are pairwise distinct.
C20_FullCycle ==
    LET n == Len(fnArg) IN
    /\ Len(fnRes) = n
    /\ (fnCount > 0 /\ fnCount < TokenCount(n)) =>
            /\ fnRes # fnArg
            /\ toHex(fnRes) # toHex(fnArg)
    /\ fnCount = TokenCount(n) => fnRes = fnArg

\* C20's case: a two-byte token has been incremented 256^2 times and is back at
\* its first value.
C20_Witness ==
    /\ Len(fnArg) = 2
    /\ fnCount = TokenCount(2)
    /\ fnRes = fnArg

====
